---- MODULE Spec2Model ----
(***************************************************************************)
(* MSInterface (src/ms_api.py): a connection manager around a MySQL       *)
(* driver.  The manager's fields are the variables connection, cursor and *)
(* connection_error.  The driver is an external collaborator: each of its  *)
(* calls (open, cursor, execute, fetchall, close) either succeeds or       *)
(* raises a driver Error, as chosen by the inputs of the action.  The      *)
(* variable trace records, for the most recent operation, the methods of   *)
(* the manager that ran and the driver calls they made, in order.          *)
(***************************************************************************)
EXTENDS Integers, Sequences, FiniteSets

VARIABLES
    constructed,       \* __init__ has returned
    connection,        \* self.connection: None or the handle the driver returned
    cursor,            \* self.cursor: None or the handle of the connection it was made from
    connection_error,  \* self.connection_error
    live,              \* driver side: handles opened and not yet closed
    handles,           \* driver side: number of handles handed out so far
    inScope,           \* inside a `with` block on the manager
    exc,               \* the exception in flight, "none" when there is none
    code,              \* the exit status carried by the exception in flight
    exited,            \* the process has terminated
    turn,              \* parity of the number of operations so far
    op,                \* the most recent operation
    stub,              \* the script for the driver's open it ran against
    trace,             \* its method calls and driver calls, in order
    ret,               \* its return value
    pc,                \* where a connect() that runs step by step stands: "Idle"
                       \* (not running), "Attempting", "Connected" or "Failed"
    retryCount         \* its local retry_count (0 while no connect() is running)

vars == <<constructed, connection, cursor, connection_error, live, handles,
          inScope, exc, code, exited, turn, op, stub, trace, ret, pc, retryCount>>

-----------------------------------------------------------------------------
(* Bounds of the driver stub. *)

\* number of open attempts the stub's script decides (later attempts fail)
ScriptLen == 5

-----------------------------------------------------------------------------
(* Program constants and Python values. *)

MAX_CONNECTION_RETRIES == 5

\* Python None in the fields connection and cursor (handles are 1, 2, ...)
None == 0

\* `not x` for a field holding None or a driver object: driver connections
\* and cursors define neither __bool__ nor __len__, so only None is falsy
Falsy(x) == x = None

\* return values: None, the manager, a list of rows, or none at all (raised)
RetNone == [tag |-> "None", rows |-> <<>>]
RetSelf == [tag |-> "self", rows |-> <<>>]
RetList(rows) == [tag |-> "list", rows |-> rows]
RetRaised == [tag |-> "raised", rows |-> <<>>]

\* typed column values the driver returns: <<python type, value as text>>
IntVal(text) == <<"int", text>>
StrVal(text) == <<"str", text>>
FloatVal(text) == <<"float", text>>
NoneVal == <<"NoneType", "None">>

\* str(x): the text of the value, its type dropped
py_str(x) == x[2]

\* what the stub's fetchall returns: no row, one row, two rows of mixed types
FetchResults ==
    { <<>>,
      << <<IntVal("1"), StrVal("1")>> >>,
      << <<IntVal("1"), StrVal("abc"), NoneVal>>, <<IntVal("2"), StrVal("xyz"), FloatVal("3.5")>> >> }

\* [tuple([str(x) for x in y]) for y in fetchall()]
normalise(rows) == [i \in 1..Len(rows) |-> [j \in 1..Len(rows[i]) |-> py_str(rows[i][j])]]

\* the stub's script for open: attempt i of a connect() succeeds iff script[i]
Scripts == [1..ScriptLen -> BOOLEAN]
OpenOk(script, i) == i \in DOMAIN script /\ script[i]

ExecOutcomes == {"ok", "execute_error", "fetch_error"}

-----------------------------------------------------------------------------
(* The methods, as functions on the record of the manager and driver.     *)

\* the driver calls of a trace, and the number of its open calls
DriverEvents == {"open_ok", "open_err", "cursor_ok", "cursor_err", "execute_ok",
                 "execute_err", "fetch_ok", "fetch_err", "close_ok", "close_err"}
Count(tr, S) == Len(SelectSeq(tr, LAMBDA e : e \in S))
OpenCalls(tr) == Count(tr, {"open_ok", "open_err"})

Log(s, e) == [s EXCEPT !.trace = Append(@, e)]

\* raise of the exception e; status is the exit status an uncaught e gives
Raise(s, e, status) == [s EXCEPT !.exc = e, !.code = status]

\* sys.exit(status): raises SystemExit(status)
sys_exit(s, status) == Raise(s, "SystemExit", status)

\* line 119: the retry counter has reached the maximum
RetryExhaustedOffByOneFixed(retry_count) == retry_count > MAX_CONNECTION_RETRIES
RetryExhaustedEarly(retry_count) == retry_count >= MAX_CONNECTION_RETRIES - 1
RetryExhausted(retry_count) == retry_count = MAX_CONNECTION_RETRIES

\* line 137: retry_count += 1
next_retry(retry_count) == retry_count + 1

\* lines 139-142: except TimeoutError
on_timeout_not_latching(s) == s
on_timeout(s) == [s EXCEPT !.connection_error = TRUE]

\* lines 124-133: the driver's open succeeded and the handle is stored
on_open_ok_clearing_error(s) ==
    LET h == s.handles + 1
    IN  [Log(s, "open_ok") EXCEPT !.connection = h, !.handles = h, !.live = @ \cup {h},
                                 !.connection_error = FALSE]
on_open_ok(s) ==
    LET h == s.handles + 1
    IN  [Log(s, "open_ok") EXCEPT !.connection = h, !.handles = h, !.live = @ \cup {h}]

\* lines 117-142: the retry loop, entered with retry_count
RECURSIVE connect_loop(_, _, _)
connect_loop(s, retry_count, script) ==
    IF RetryExhausted(retry_count) THEN on_timeout(s)
    ELSE IF OpenOk(script, OpenCalls(s.trace) + 1)
         THEN on_open_ok(s)
         ELSE connect_loop(Log(s, "open_err"), next_retry(retry_count), script)

\* lines 113-142
connect_always(s, script) == connect_loop(Log(s, "connect"), 1, script)
connect(s, script) ==
    LET s1 == Log(s, "connect")
    IN  IF Falsy(s1.connection) THEN connect_loop(s1, 1, script) ELSE s1

\* lines 97-102
verify_connection_unguarded(s, script) ==
    LET s1 == Log(s, "verify_connection")
    IN  IF Falsy(s1.connection) THEN connect(s1, script) ELSE s1
verify_connection_reopening(s, script) ==
    LET s1 == Log(s, "verify_connection")
    IN  IF ~s1.connection_error
        THEN connect_loop(Log(s1, "connect"), 1, script)
        ELSE sys_exit(s1, 1)
verify_connection(s, script) ==
    LET s1 == Log(s, "verify_connection")
    IN  IF ~s1.connection_error
        THEN IF Falsy(s1.connection) THEN connect(s1, script) ELSE s1
        ELSE sys_exit(s1, 1)

\* lines 88-95; self.connection.cursor() on None raises AttributeError, which
\* `except Error` does not catch; sys.exit() without argument is status 0
verify_cursor_eager(s, cursorOk) ==
    LET s1 == Log(s, "verify_cursor")
    IN  IF s1.connection = None THEN Raise(s1, "AttributeError", 1)
        ELSE IF cursorOk THEN [Log(s1, "cursor_ok") EXCEPT !.cursor = s1.connection]
        ELSE sys_exit(Log(s1, "cursor_err"), 0)
verify_cursor_swallowing(s, cursorOk) ==
    LET s1 == Log(s, "verify_cursor")
    IN  IF Falsy(s1.cursor)
        THEN IF s1.connection = None THEN Raise(s1, "AttributeError", 1)
             ELSE IF cursorOk THEN [Log(s1, "cursor_ok") EXCEPT !.cursor = s1.connection]
             ELSE Log(s1, "cursor_err")
        ELSE s1
verify_cursor(s, cursorOk) ==
    LET s1 == Log(s, "verify_cursor")
    IN  IF Falsy(s1.cursor)
        THEN IF s1.connection = None THEN Raise(s1, "AttributeError", 1)
             ELSE IF cursorOk THEN [Log(s1, "cursor_ok") EXCEPT !.cursor = s1.connection]
             ELSE sys_exit(Log(s1, "cursor_err"), 0)
        ELSE s1

\* lines 104-111
disconnect_propagating(s, closeOk) ==
    LET s1 == Log(s, "disconnect")
    IN  IF ~Falsy(s1.connection)
        THEN IF closeOk THEN [Log(s1, "close_ok") EXCEPT !.live = @ \ {s1.connection}]
             ELSE Raise(Log(s1, "close_err"), "Error", 1)
        ELSE s1
disconnect(s, closeOk) ==
    LET s1 == Log(s, "disconnect")
    IN  IF ~Falsy(s1.connection)
        THEN IF closeOk THEN [Log(s1, "close_ok") EXCEPT !.live = @ \ {s1.connection}]
             ELSE Log(s1, "close_err")
        ELSE s1

\* lines 71-86: the try block of execute_query
run_query_dropping_cursor(s, outcome, rows) ==
    IF outcome = "execute_error"
    THEN [Log(s, "execute_err") EXCEPT !.ret = RetNone, !.cursor = None]
    ELSE IF outcome = "fetch_error"
         THEN [Log(Log(s, "execute_ok"), "fetch_err") EXCEPT !.ret = RetNone]
         ELSE LET result == normalise(rows)
              IN  [Log(Log(s, "execute_ok"), "fetch_ok") EXCEPT
                      !.ret = IF result # <<>> THEN RetList(result) ELSE RetList(<<>>)]
run_query(s, outcome, rows) ==
    IF outcome = "execute_error" THEN [Log(s, "execute_err") EXCEPT !.ret = RetNone]
    ELSE IF outcome = "fetch_error"
         THEN [Log(Log(s, "execute_ok"), "fetch_err") EXCEPT !.ret = RetNone]
         ELSE LET result == normalise(rows)
              IN  [Log(Log(s, "execute_ok"), "fetch_ok") EXCEPT
                      !.ret = IF result # <<>> THEN RetList(result) ELSE RetList(<<>>)]

\* lines 67-86
execute_query(s, script, cursorOk, outcome, rows) ==
    LET s1 == verify_connection(Log(s, "execute_query"), script)
        s2 == verify_cursor(s1, cursorOk)
    IN  IF s1.exc # "none" THEN s1
        ELSE IF s2.exc # "none" THEN s2
        ELSE run_query(s2, outcome, rows)

\* lines 61-62
enter(s) == [Log(s, "__enter__") EXCEPT !.ret = RetSelf]

\* lines 64-65; returns None, so an exception in flight goes on
exit_skipping_on_error(s, closeOk) ==
    IF s.exc # "none" THEN Log(s, "__exit__") ELSE disconnect(Log(s, "__exit__"), closeOk)
exit(s, closeOk) == disconnect(Log(s, "__exit__"), closeOk)

-----------------------------------------------------------------------------
(* The state machine. *)

\* lines 49-54: the fields before __init__ calls connect()
Init ==
    /\ constructed = FALSE
    /\ connection = None
    /\ cursor = None
    /\ connection_error = FALSE
    /\ live = {}
    /\ handles = 0
    /\ inScope = FALSE
    /\ exc = "none"
    /\ code = 0
    /\ exited = FALSE
    /\ turn = 0
    /\ op = "none"
    /\ stub = <<>>
    /\ trace = <<>>
    /\ ret = RetNone
    /\ pc = "Idle"
    /\ retryCount = 0

\* the manager and driver at the start of an operation
St == [connection |-> connection, cursor |-> cursor,
       connection_error |-> connection_error, live |-> live, handles |-> handles,
       trace |-> <<>>, exc |-> exc, code |-> code, ret |-> RetNone]

\* the state after operation name, run against script, left the record s; an exception that leaves
\* the operation outside a `with` block is uncaught and ends the process
Finish(name, script, s) ==
    /\ connection' = s.connection
    /\ cursor' = s.cursor
    /\ connection_error' = s.connection_error
    /\ live' = s.live
    /\ handles' = s.handles
    /\ exc' = s.exc
    /\ code' = s.code
    /\ exited' = (s.exc # "none" /\ ~inScope')
    /\ turn' = 1 - turn
    /\ op' = name
    /\ stub' = script
    /\ trace' = s.trace
    /\ ret' = IF s.exc # "none" THEN RetRaised ELSE s.ret
    /\ UNCHANGED <<pc, retryCount>>

\* the caller can call a method: the object exists and control is with the caller
Callable == constructed /\ ~exited /\ exc = "none"

\* lines 40-56
Construct(script) ==
    /\ ~constructed
    /\ constructed' = TRUE
    /\ inScope' = inScope
    /\ Finish("__init__", script, connect(St, script))

Connect(script) ==
    /\ Callable
    /\ UNCHANGED <<constructed, inScope>>
    /\ Finish("connect", script, connect(St, script))

VerifyConnection(script) ==
    /\ Callable
    /\ UNCHANGED <<constructed, inScope>>
    /\ Finish("verify_connection", script, verify_connection(St, script))

VerifyCursor(cursorOk) ==
    /\ Callable
    /\ UNCHANGED <<constructed, inScope>>
    /\ Finish("verify_cursor", <<>>, verify_cursor(St, cursorOk))

ExecuteQuery(script, cursorOk, outcome, rows) ==
    /\ Callable
    /\ UNCHANGED <<constructed, inScope>>
    /\ Finish("execute_query", script, execute_query(St, script, cursorOk, outcome, rows))

Disconnect(closeOk) ==
    /\ Callable
    /\ UNCHANGED <<constructed, inScope>>
    /\ Finish("disconnect", <<>>, disconnect(St, closeOk))

\* `with manager as m:` is entered
Enter ==
    /\ Callable
    /\ ~inScope
    /\ inScope' = TRUE
    /\ UNCHANGED constructed
    /\ Finish("__enter__", <<>>, enter(St))

\* the body of the `with` block raises an error of its own
RaiseInBody ==
    /\ Callable
    /\ inScope
    /\ UNCHANGED <<constructed, inScope>>
    /\ Finish("raise", <<>>, Raise(St, "Exception", 1))

\* the `with` block is left, normally or by the exception in flight
Exit(closeOk) ==
    /\ constructed
    /\ ~exited
    /\ inScope
    /\ inScope' = FALSE
    /\ UNCHANGED constructed
    /\ Finish("__exit__", <<>>, exit(St, closeOk))

Next ==
    \/ \E script \in Scripts : Construct(script)
    \/ \E script \in Scripts : Connect(script)
    \/ \E script \in Scripts : VerifyConnection(script)
    \/ \E cursorOk \in BOOLEAN : VerifyCursor(cursorOk)
    \/ \E script \in Scripts, cursorOk \in BOOLEAN, outcome \in ExecOutcomes,
          rows \in FetchResults : ExecuteQuery(script, cursorOk, outcome, rows)
    \/ \E closeOk \in BOOLEAN : Disconnect(closeOk)
    \/ Enter
    \/ RaiseInBody
    \/ \E closeOk \in BOOLEAN : Exit(closeOk)

Spec == Init /\ [][Next]_vars

-----------------------------------------------------------------------------
(* connect() step by step: one step per pass of its loop (lines 113-142).  *)

\* the managers connect() can be called on: not yet connected (from __init__),
\* latched, connected, and connected after the latch; against every script
InitConnect ==
    \E c \in {None, 1}, e \in BOOLEAN, script \in Scripts :
        /\ connection = c
        /\ connection_error = e
        /\ live = IF c = None THEN {} ELSE {c}
        /\ handles = c
        /\ constructed = (c # None \/ e)
        /\ cursor = None
        /\ inScope = FALSE
        /\ exc = "none"
        /\ code = 0
        /\ exited = FALSE
        /\ turn = 0
        /\ op = "connect"
        /\ stub = script
        /\ trace = <<>>
        /\ ret = RetNone
        /\ pc = "Idle"
        /\ retryCount = 0

\* the manager and driver in the middle of connect()
Mid == [St EXCEPT !.trace = trace]

\* the fields and the trace after a step of connect() left the record s
Step(s) ==
    /\ connection' = s.connection
    /\ connection_error' = s.connection_error
    /\ live' = s.live
    /\ handles' = s.handles
    /\ trace' = s.trace
    /\ UNCHANGED <<constructed, cursor, inScope, exc, code, exited, turn, op, stub, ret>>

\* lines 114-116: retry_count = 1; the loop is entered if there is no connection
ConnectStart ==
    /\ pc = "Idle"
    /\ retryCount' = 1
    /\ pc' = IF Falsy(connection) THEN "Attempting" ELSE "Connected"
    /\ Step(Log(Mid, "connect"))

\* lines 119-120 and 139-142: the counter has reached the maximum
LoopTimeout ==
    /\ pc = "Attempting"
    /\ RetryExhausted(retryCount)
    /\ pc' = "Failed"
    /\ UNCHANGED retryCount
    /\ Step(on_timeout(Mid))

\* lines 124-133: the open call succeeds
LoopOpenOk ==
    /\ pc = "Attempting"
    /\ ~RetryExhausted(retryCount)
    /\ OpenOk(stub, OpenCalls(trace) + 1)
    /\ pc' = "Connected"
    /\ UNCHANGED retryCount
    /\ Step(on_open_ok(Mid))

\* lines 124-130 and 135-137: the open call raises, the counter goes up
LoopOpenErr ==
    /\ pc = "Attempting"
    /\ ~RetryExhausted(retryCount)
    /\ ~OpenOk(stub, OpenCalls(trace) + 1)
    /\ pc' = "Attempting"
    /\ retryCount' = next_retry(retryCount)
    /\ Step(Log(Mid, "open_err"))

NextConnect == ConnectStart \/ LoopTimeout \/ LoopOpenOk \/ LoopOpenErr

\* the interpreter runs the loop on: every driver call returns or raises
ConnectSpec == InitConnect /\ [][NextConnect]_vars /\ WF_vars(NextConnect)

-----------------------------------------------------------------------------
(* Properties. *)

\* the stub reports an error on every open attempt
AlwaysFails(script) == \A i \in DOMAIN script : ~script[i]
\* the stub reports an error on attempts 1..N-1 and succeeds on attempt N
SucceedsOn(script, N) == N \in DOMAIN script /\ script[N] /\ \A i \in 1..(N - 1) : ~script[i]
\* the operation ran the method m / made a driver call of S
Ran(tr, m) == Count(tr, {m}) > 0
Made(tr, S) == Count(tr, S)
CloseCalls(tr) == Count(tr, {"close_ok", "close_err"})
CursorCalls(tr) == Count(tr, {"cursor_ok", "cursor_err"})

\* C1: against a driver whose every open call reports an error, one connect()
\* on a manager with no connection (called directly or by __init__) makes
\* exactly MAX_CONNECTION_RETRIES - 1 open calls, sets connection_error, leaves
\* connection unset and returns normally.
C1_RetryBound ==
    [][ (connection = None /\ op' \in {"__init__", "connect"} /\ AlwaysFails(stub'))
        => /\ OpenCalls(trace') = MAX_CONNECTION_RETRIES - 1
           /\ Made(trace', DriverEvents) = OpenCalls(trace')
           /\ connection_error'
           /\ connection' = None
           /\ exc' = "none" /\ ~exited' /\ ret' = RetNone ]_vars

\* a direct connect() on a manager without connection ran into the retry bound
C1_Witness ==
    /\ op = "connect" /\ AlwaysFails(stub)
    /\ OpenCalls(trace) = 4 /\ connection_error /\ connection = None /\ ~exited

\* C2: for every N in 1..MAX_CONNECTION_RETRIES-1, against a driver whose open
\* fails on attempts 1..N-1 and succeeds on attempt N, the connect() of a
\* manager that has no connection and has not latched makes exactly N open
\* calls and ends holding a live connection with connection_error false.
C2_SuccessPath ==
    [][ \A N \in 1..(MAX_CONNECTION_RETRIES - 1) :
          (connection = None /\ ~connection_error /\ Ran(trace', "connect")
             /\ SucceedsOn(stub', N))
          => /\ OpenCalls(trace') = N
             /\ Count(trace', {"open_ok"}) = 1
             /\ connection' # None /\ connection' \in live'
             /\ ~connection_error'
             /\ exc' = "none" ]_vars

\* a connect() that succeeded on its last permitted attempt
C2_Witness ==
    /\ Ran(trace, "connect") /\ SucceedsOn(stub, MAX_CONNECTION_RETRIES - 1)
    /\ OpenCalls(trace) = MAX_CONNECTION_RETRIES - 1
    /\ connection # None /\ connection \in live /\ ~connection_error

\* C3: with connection_error set, verify_connection(), called directly or
\* through execute_query(), raises SystemExit with status 1 without making any
\* driver call, and the process ends with that status: at once, or, inside a
\* `with` block, when __exit__ has let the SystemExit through, having made no
\* open, cursor, execute or fetch call.
C3_LatchedFatal ==
    [][ /\ (connection_error /\ op' \in {"verify_connection", "execute_query"})
           => /\ exc' = "SystemExit" /\ code' = 1
              /\ Made(trace', DriverEvents) = 0
              /\ ~Ran(trace', "connect")
              /\ (exited' \/ inScope)
        /\ (exc = "SystemExit" /\ ~exited)
           => /\ op' = "__exit__" /\ exited' /\ exc' = exc /\ code' = code
              /\ Made(trace', DriverEvents) = CloseCalls(trace') ]_vars

\* execute_query() on a latched manager ended the process with status 1
C3_Witness ==
    /\ op = "execute_query" /\ connection_error
    /\ exited /\ exc = "SystemExit" /\ code = 1

\* C4: connection_error, once true, is true in every later state.
C4_Latched == [][connection_error => connection_error']_vars

\* the flag is still set after a later connect() that opened a connection
C4_Witness == connection_error /\ op = "connect" /\ connection # None /\ connection \in live

\* the manager's fields and the driver's handles are left as they were
FieldsUnchanged == UNCHANGED <<connection, cursor, connection_error, live, handles>>

\* C5: once connection_error is set, no operation of the manager, a direct
\* connect() included, makes another driver open call.
C5_NoOpenAfterLatch == [][connection_error => OpenCalls(trace') = 0]_vars

\* C6: whenever connection_error is set, the manager holds no live connection
\* and no cursor of a live connection.
C6_ErrorHoldsNothing ==
    connection_error => (connection \notin live /\ cursor \notin live)

\* C7: whenever the manager holds a cursor, the connection it was created
\* from is live; so no cursor is held after disconnect() closed the connection
\* and no SQL is sent through the cursor of a closed connection.
C7_CursorWithinConnection ==
    /\ cursor # None => cursor \in live
    /\ Made(trace, {"execute_ok", "execute_err"}) > 0 => cursor \in live

\* C8: disconnect() on a manager that never connected, and a disconnect()
\* that directly follows a disconnect() which closed the connection, make no
\* driver close call, change nothing and do not raise.
C8_DisconnectIdempotent ==
    [][ (op' = "disconnect"
           /\ (connection = None \/ (op = "disconnect" /\ connection \notin live)))
        => (CloseCalls(trace') = 0 /\ exc' = "none" /\ FieldsUnchanged) ]_vars

\* C9: execute_query() returns [] when execute succeeds and fetchall yields
\* no row, and returns [] as well when execute raises a driver error.
C9_EmptyOnError ==
    /\ (op = "execute_query" /\ Ran(trace, "fetch_ok") /\ ret.rows = <<>>)
          => ret = RetList(<<>>)
    /\ (op = "execute_query" /\ Ran(trace, "execute_err"))
          => ret = RetList(<<>>)

\* C10: the `with` block is left only through __exit__, and every __exit__,
\* with or without an exception in flight, calls disconnect() exactly once;
\* __enter__ returns the manager, makes no driver call and changes no field.
C10_ScopedLifecycle ==
    [][ /\ (inScope /\ ~inScope') => op' = "__exit__"
        /\ op' = "__exit__"
             => (Count(trace', {"disconnect"}) = 1 /\ ~inScope' /\ exc' = exc)
        /\ op' = "__enter__"
             => /\ ret' = RetSelf /\ inScope'
                /\ Made(trace', DriverEvents) = 0
                /\ FieldsUnchanged ]_vars

\* the block was left by an error raised inside it, and disconnect() ran once
C10_Witness ==
    /\ op = "__exit__" /\ exc = "Exception" /\ exited
    /\ Count(trace, {"disconnect"}) = 1 /\ CloseCalls(trace) = 1

\* C11: with connection_error false and no live connection, the state after
\* disconnect() closed the connection included, verify_connection() calls
\* connect(), so the next verify_connection() or execute_query() makes a
\* driver open call first.
C11_ReconnectAfterDisconnect ==
    [][ (~connection_error /\ connection \notin live
           /\ op' \in {"verify_connection", "execute_query"})
        => (Ran(trace', "connect") /\ OpenCalls(trace') >= 1) ]_vars

\* C12: connect() on a manager that holds a live connection makes no driver
\* call and changes no field.
C12_ConnectNoOp ==
    [][ (op' = "connect" /\ connection # None /\ connection \in live)
        => /\ Made(trace', DriverEvents) = 0
           /\ trace' = <<"connect">>
           /\ FieldsUnchanged
           /\ exc' = "none" /\ ~exited' ]_vars

\* connect() was called on a manager that construction had connected
C12_Witness ==
    /\ op = "connect" /\ trace = <<"connect">>
    /\ connection # None /\ connection \in live /\ ~connection_error

\* C13: __init__ and connect() make no driver cursor call; an execute_query()
\* on a manager that holds a connection and no cursor yet makes exactly one;
\* every execute_query() on a manager that holds a cursor makes none and
\* keeps that cursor, whatever the earlier queries returned.
C13_LazyCursor ==
    [][ /\ op' \in {"__init__", "connect"} => CursorCalls(trace') = 0
        /\ (op' = "execute_query" /\ cursor = None /\ connection # None /\ ~connection_error)
             => (CursorCalls(trace') = 1
                   /\ (Ran(trace', "cursor_ok") => cursor' = connection'))
        /\ (op' = "execute_query" /\ cursor # None)
             => (CursorCalls(trace') = 0 /\ cursor' = cursor) ]_vars

\* a later query made no cursor call and ran on the cursor the manager held
C13_Witness ==
    /\ op = "execute_query" /\ Ran(trace, "execute_ok") /\ CursorCalls(trace) = 0
    /\ cursor # None /\ cursor = connection

\* C14: when the driver's cursor creation raises, verify_cursor() raises
\* SystemExit: the cursor call is made once, no execute or fetch call follows,
\* the manager holds no cursor, nothing is returned to the caller and the
\* process ends (inside a `with` block, after __exit__).
C14_CursorFailureFatal ==
    [][ /\ Ran(trace', "cursor_err")
           => /\ CursorCalls(trace') = 1
              /\ trace'[Len(trace')] = "cursor_err"
              /\ Made(trace', {"execute_ok", "execute_err", "fetch_ok", "fetch_err"}) = 0
              /\ cursor' = None
              /\ exc' = "SystemExit" /\ ret' = RetRaised
              /\ (exited' \/ inScope)
        /\ (Ran(trace, "cursor_err") /\ ~exited)
           => (op' = "__exit__" /\ exited' /\ cursor' = None) ]_vars

\* execute_query() ended the process when the cursor could not be created
C14_Witness ==
    /\ op = "execute_query" /\ Ran(trace, "cursor_err")
    /\ exited /\ exc = "SystemExit" /\ cursor = None

\* C15: when the driver's close raises, disconnect() returns normally, called
\* directly or by __exit__ (which then passes on only the exception that was
\* already in flight), and connection_error is left as it was.
C15_CloseErrorSwallowed ==
    [][ Ran(trace', "close_err")
        => /\ op' \in {"disconnect", "__exit__"}
           /\ exc' = exc /\ code' = code
           /\ (exc = "none" => (~exited' /\ ret' = RetNone))
           /\ connection_error' = connection_error ]_vars

\* a `with` block was left normally although the close raised
C15_Witness ==
    /\ op = "__exit__" /\ Ran(trace, "close_err")
    /\ exc = "none" /\ ~exited /\ ret = RetNone

\* C16: every connect(), whatever the driver's open calls answer, leaves its
\* loop: it ends Connected (a connection is stored) or Failed (connection_error
\* is set, no connection stored) and stays there, having made at most
\* MAX_CONNECTION_RETRIES - 1 open calls.
C16_ConnectTerminates ==
    /\ <>(pc \in {"Connected", "Failed"})
    /\ [](OpenCalls(trace) <= MAX_CONNECTION_RETRIES - 1)
    /\ [](pc = "Connected" => connection # None)
    /\ [](pc = "Failed" => (connection_error /\ connection = None))
    /\ [][(pc \in {"Connected", "Failed"}) => (pc' = pc)]_vars

\* a connect() gave up after the last permitted open call
C16_Witness ==
    /\ pc = "Failed" /\ OpenCalls(trace) = MAX_CONNECTION_RETRIES - 1
    /\ connection_error /\ connection = None

\* C17: at most one driver connection is open at any time; a successful open
\* happens only while the manager holds no connection, and a cursor is
\* created only while it holds no cursor, each at most once in an operation.
C17_AtMostOne ==
    /\ [](Cardinality(live) <= 1)
    /\ [][ Ran(trace', "open_ok")
             => (connection = None /\ live = {} /\ Count(trace', {"open_ok"}) = 1
                   /\ live' = {connection'}) ]_vars
    /\ [][ Ran(trace', "cursor_ok")
             => (cursor = None /\ Count(trace', {"cursor_ok"}) = 1
                   /\ cursor' = connection') ]_vars

\* after a query the manager holds the one connection ever opened and its cursor
C17_Witness ==
    /\ op = "execute_query" /\ OpenCalls(trace) = 0 /\ CursorCalls(trace) = 0
    /\ handles = 1 /\ live = {connection} /\ cursor = connection

\* C18: once constructed, the manager holds a connection object or has
\* connection_error set; so execute_query() reaches verify_cursor() only with
\* a connection object and never raises AttributeError for a missing one.
C18_ConnectionOrError ==
    constructed
    => /\ (connection # None \/ connection_error)
       /\ (op = "execute_query" /\ Ran(trace, "verify_cursor")) => connection # None
       /\ op = "execute_query" => exc # "AttributeError"

\* execute_query() on a manager whose construction exhausted the retries
\* stopped in verify_connection(), before verify_cursor()
C18_Witness ==
    /\ op = "execute_query" /\ connection = None /\ connection_error
    /\ exc = "SystemExit" /\ ~Ran(trace, "verify_cursor")

\* C19: an execute_query() whose execute raises a driver error ends with that
\* call: no open or close call, no cursor call if a cursor was held, the
\* fields and the driver's handles as they were (but for a cursor created
\* before the execute), no exception and no exit; the cursor stays in place
\* for the next query.
C19_ExecuteErrorFrame ==
    [][ Ran(trace', "execute_err")
        => /\ op' = "execute_query"
           /\ trace'[Len(trace')] = "execute_err"
           /\ OpenCalls(trace') = 0 /\ CloseCalls(trace') = 0
           /\ UNCHANGED <<connection, connection_error, live, handles>>
           /\ (cursor # None => (cursor' = cursor /\ CursorCalls(trace') = 0))
           /\ (cursor = None => cursor' = connection)
           /\ exc' = "none" /\ ~exited' ]_vars

\* a query failed on a manager that held a cursor, and nothing changed
C19_Witness ==
    /\ op = "execute_query" /\ Ran(trace, "execute_err") /\ CursorCalls(trace) = 0
    /\ cursor # None /\ cursor = connection /\ connection \in live
    /\ exc = "none" /\ ~exited

====
